---- MODULE Spec2Model ----
(***************************************************************************)
(* Model of the SimChallenge investment-game simulations:                  *)
(*   multiple_simulations.py          (full-stake engine, trial runner)    *)
(*   modified_strategy_simulations.py (50% stake engine, trial runner)     *)
(* Balances are Python floats (IEEE-754 binary64).  They are modelled      *)
(* exactly: a finite double is sign, 53-bit significand and exponent, and  *)
(* every arithmetic step rounds to nearest, ties to even, as the hardware  *)
(* does.  Significands do not fit TLC's integers, so natural numbers are   *)
(* kept as little-endian sequences of base-2^15 limbs.                     *)
(***************************************************************************)
EXTENDS Integers, Sequences, FiniteSets

-----------------------------------------------------------------------------
(* Natural numbers of arbitrary size: <<>> is 0, no leading (last) zero.   *)

LimbBits == 15

Base == 2^LimbBits

RECURSIVE BTrim(_)
BTrim(a) ==
  IF a = <<>> THEN <<>>
  ELSE IF a[Len(a)] = 0 THEN BTrim(SubSeq(a, 1, Len(a) - 1)) ELSE a

RECURSIVE BFromInt(_)
BFromInt(n) ==
  IF n = 0 THEN <<>> ELSE <<n % Base>> \o BFromInt(n \div Base)

RECURSIVE BAddC(_, _, _)
BAddC(a, b, c) ==
  IF a = <<>> /\ b = <<>> THEN (IF c = 0 THEN <<>> ELSE <<c>>)
  ELSE LET x == IF a = <<>> THEN 0 ELSE Head(a)
           y == IF b = <<>> THEN 0 ELSE Head(b)
           s == x + y + c
       IN  <<s % Base>> \o BAddC(IF a = <<>> THEN <<>> ELSE Tail(a),
                                 IF b = <<>> THEN <<>> ELSE Tail(b),
                                 s \div Base)

BAdd(a, b) == BAddC(a, b, 0)

RECURSIVE BSubC(_, _, _)
BSubC(a, b, c) ==
  IF a = <<>> THEN <<>>
  ELSE LET y == IF b = <<>> THEN 0 ELSE Head(b)
           d == Head(a) - y - c
       IN  <<d % Base>> \o BSubC(Tail(a),
                                 IF b = <<>> THEN <<>> ELSE Tail(b),
                                 IF d < 0 THEN 1 ELSE 0)

\* a - b for a >= b
BSub(a, b) == BTrim(BSubC(a, b, 0))

RECURSIVE BMulSmallC(_, _, _)
BMulSmallC(a, d, c) ==
  IF a = <<>> THEN (IF c = 0 THEN <<>> ELSE <<c>>)
  ELSE LET p == Head(a) * d + c
       IN  <<p % Base>> \o BMulSmallC(Tail(a), d, p \div Base)

\* a * d for 0 <= d < Base
BMulSmall(a, d) == IF d = 0 THEN <<>> ELSE BMulSmallC(a, d, 0)

RECURSIVE BMul(_, _)
BMul(a, b) ==
  IF a = <<>> \/ b = <<>> THEN <<>>
  ELSE LET rest == BMul(a, Tail(b))
       IN  BAdd(BMulSmall(a, Head(b)),
                IF rest = <<>> THEN <<>> ELSE <<0>> \o rest)

\* quotient and remainder of a by d, 0 < d < Base, most significant limb first
RECURSIVE BDivSmallR(_, _)
BDivSmallR(a, d) ==
  IF a = <<>> THEN [q |-> <<>>, r |-> 0]
  ELSE LET hi  == BDivSmallR(Tail(a), d)
           cur == hi.r * Base + Head(a)
       IN  [q |-> <<cur \div d>> \o hi.q, r |-> cur % d]

BDivSmall(a, d) ==
  LET x == BDivSmallR(a, d) IN [q |-> BTrim(x.q), r |-> x.r]

\* -1, 0, 1 as a < b, a = b, a > b
RECURSIVE BCmp(_, _)
BCmp(a, b) ==
  IF Len(a) # Len(b) THEN (IF Len(a) < Len(b) THEN -1 ELSE 1)
  ELSE IF a = <<>> THEN 0
  ELSE LET n == Len(a)
       IN  IF a[n] # b[n] THEN (IF a[n] < b[n] THEN -1 ELSE 1)
           ELSE BCmp(SubSeq(a, 1, n - 1), SubSeq(b, 1, n - 1))

RECURSIVE IntBitLen(_)
IntBitLen(n) == IF n = 0 THEN 0 ELSE 1 + IntBitLen(n \div 2)

BBitLen(a) ==
  IF a = <<>> THEN 0 ELSE LimbBits * (Len(a) - 1) + IntBitLen(a[Len(a)])

\* a * 2^k
BShl(a, k) ==
  IF a = <<>> THEN <<>>
  ELSE [i \in 1..(k \div LimbBits) |-> 0] \o BMulSmall(a, 2^(k % LimbBits))

\* floor(a / 2^k)
BShr(a, k) ==
  LET w == k \div LimbBits
  IN  IF w >= Len(a) THEN <<>>
      ELSE BDivSmall(SubSeq(a, w + 1, Len(a)), 2^(k % LimbBits)).q

BIsOdd(a) == a # <<>> /\ a[1] % 2 = 1

RECURSIVE BPow(_, _)
BPow(d, k) == IF k = 0 THEN <<1>> ELSE BMulSmall(BPow(d, k - 1), d)

-----------------------------------------------------------------------------
(* IEEE-754 binary64 values.  A finite non-zero double is                  *)
(* (-1)^s * m * 2^e with 2^52 <= m < 2^53; cls tells numbers, zeros,       *)
(* infinities and NaN apart.  The significand is kept at 53 bits for every *)
(* finite number, so that equal doubles are equal records: a subnormal     *)
(* double is a multiple of 2^MinExponent written with trailing zero bits   *)
(* and an exponent below MinExponent.  Results are rounded to the doubles  *)
(* that exist: below 2^-1022 to multiples of 2^-1074 (gradual underflow,   *)
(* possibly to 0.0), from 2^1024 on to infinity.  0.0 and -0.0 are not     *)
(* told apart.                                                             *)

Precision == 53

\* the exponent of the last bit of a subnormal double
MinExponent == -1074

\* the exponent of the last bit of the largest doubles
MaxExponent == 971

NaN == [cls |-> "nan", s |-> 0, m |-> <<>>, e |-> 0]

Zero == [cls |-> "zero", s |-> 0, m |-> <<>>, e |-> 0]

Inf(s) == [cls |-> "inf", s |-> s, m |-> <<>>, e |-> 0]

\* the double (-1)^s * n * 2^e for 0 < n <= 2^53 on the grid of doubles
Finite(s, n, e) ==
  LET L == BBitLen(n)
      m == IF L > Precision THEN BShr(n, L - Precision)
           ELSE BShl(n, Precision - L)
      x == e + L - Precision
  IN  IF x > MaxExponent THEN Inf(s)
      ELSE [cls |-> "num", s |-> s, m |-> m, e |-> x]

\* round (n + d) * 2^e, 0 <= d < 1, sticky <=> d > 0, to nearest, ties to
\* even; last is the exponent of the last bit the result keeps
Round(s, n, e, sticky) ==
  IF n = <<>> THEN Zero
  ELSE LET ideal == e + BBitLen(n) - Precision
           last  == IF ideal < MinExponent THEN MinExponent ELSE ideal
           sh    == last - e
       IN  IF sh <= 0 THEN Finite(s, n, e)
           ELSE LET q    == BShr(n, sh)
                    r    == BSub(n, BShl(q, sh))
                    c    == BCmp(r, BShl(<<1>>, sh - 1))
                    up   == \/ c = 1
                            \/ c = 0 /\ (sticky \/ BIsOdd(q))
                    q1   == IF up THEN BAdd(q, <<1>>) ELSE q
                IN  IF q1 = <<>> THEN Zero ELSE Finite(s, q1, last)

\* int -> float conversion (exact for the integers used here)
FromInt(i) ==
  IF i = 0 THEN Zero
  ELSE Round(IF i < 0 THEN 1 ELSE 0, BFromInt(IF i < 0 THEN -i ELSE i), 0, FALSE)

FloatMul(a, b) ==
  IF a.cls = "nan" \/ b.cls = "nan" THEN NaN
  ELSE IF a.cls = "inf" \/ b.cls = "inf"
  THEN (IF a.cls = "zero" \/ b.cls = "zero" THEN NaN
        ELSE Inf((a.s + b.s) % 2))
  ELSE IF a.cls = "zero" \/ b.cls = "zero" THEN Zero
  ELSE Round((a.s + b.s) % 2, BMul(a.m, b.m), a.e + b.e, FALSE)

FloatNeg(a) ==
  IF a.cls \in {"num", "inf"} THEN [a EXCEPT !.s = 1 - a.s] ELSE a

\* a term more than Precision + 3 binary places below the other one only
\* tells the rounding on which side of the other one the sum lies: one unit
\* Precision + 3 places below does the same
Absorbed(a, b) ==
  IF b.e - a.e > Precision + 3
  THEN [a EXCEPT !.m = <<1>>, !.e = b.e - Precision - 3]
  ELSE a

FloatAdd(a, b) ==
  IF a.cls = "nan" \/ b.cls = "nan" THEN NaN
  ELSE IF a.cls = "inf"
  THEN (IF b.cls = "inf" /\ b.s # a.s THEN NaN ELSE a)
  ELSE IF b.cls = "inf" THEN b
  ELSE IF a.cls = "zero" THEN b
  ELSE IF b.cls = "zero" THEN a
  ELSE LET a1 == Absorbed(a, b)
           b1 == Absorbed(b, a)
           e  == IF a1.e < b1.e THEN a1.e ELSE b1.e
           x  == BShl(a1.m, a1.e - e)
           y  == BShl(b1.m, b1.e - e)
           c  == BCmp(x, y)
       IN  IF a.s = b.s THEN Round(a.s, BAdd(x, y), e, FALSE)
           ELSE IF c = 0 THEN Zero
           ELSE IF c = 1 THEN Round(a.s, BSub(x, y), e, FALSE)
           ELSE Round(b.s, BSub(y, x), e, FALSE)

FloatSub(a, b) == FloatAdd(a, FloatNeg(b))

GuardBits == 2 * LimbBits

\* a / d for an integer 0 <= d < Base.  d = 0 arises only as 0.0 / 0 (the
\* mean of an empty array), which is NaN
FloatDivInt(a, d) ==
  IF a.cls = "nan" \/ d = 0 THEN NaN
  ELSE IF a.cls \in {"zero", "inf"} THEN a
  ELSE LET x == BDivSmall(BShl(a.m, GuardBits), d)
       IN  Round(a.s, x.q, a.e - GuardBits, x.r # 0)

\* a < b; any comparison with NaN is false
FloatLt(a, b) ==
  IF a.cls = "nan" \/ b.cls = "nan" THEN FALSE
  ELSE IF a.cls = "inf" /\ b.cls = "inf" THEN a.s = 1 /\ b.s = 0
  ELSE LET d == FloatSub(b, a) IN d.cls \in {"num", "inf"} /\ d.s = 0

FloatGt(a, b) == FloatLt(b, a)

FloatEq(a, b) ==
  /\ a.cls # "nan"
  /\ b.cls # "nan"
  /\ IF a.cls = "inf" \/ b.cls = "inf" THEN a = b
     ELSE FloatSub(a, b).cls = "zero"

\* floor of the square root of 0 <= x < Base^2, bit by bit
RECURSIVE IntSqrtLoop(_, _, _)
IntSqrtLoop(x, r, bit) ==
  IF bit = 0 THEN r
  ELSE IF (r + bit) * (r + bit) <= x THEN IntSqrtLoop(x, r + bit, bit \div 2)
  ELSE IntSqrtLoop(x, r, bit \div 2)

RECURSIVE BToInt(_)
BToInt(a) == IF a = <<>> THEN 0 ELSE Head(a) + Base * BToInt(Tail(a))

\* the largest d <= est with (2 * r * Base + d) * d <= rem   (r2 = 2 * r)
RECURSIVE BSqrtDigit(_, _, _)
BSqrtDigit(r2, rem, est) ==
  IF est = 0 THEN 0
  ELSE IF BCmp(BMulSmall(<<est>> \o r2, est), rem) <= 0 THEN est
  ELSE BSqrtDigit(r2, rem, est - 1)

\* square root and remainder of n (an even number of limbs, the leading
\* pair at least Base^2 / 4), one limb of the root for every two limbs of
\* n, as in the pencil-and-paper method
RECURSIVE BSqrtRem(_)
BSqrtRem(n) ==
  IF n = <<>> THEN [r |-> <<>>, rem |-> <<>>]
  ELSE LET up   == BSqrtRem(SubSeq(n, 3, Len(n)))
           rem  == BTrim(<<n[1], n[2]>> \o up.rem)
           r2   == BAdd(up.r, up.r)
           half == BShr(rem, 1)
           top  == BToInt(SubSeq(half, Len(up.r) + 1, Len(half)))
           q    == top \div up.r[Len(up.r)]
           est  == IF up.r = <<>> THEN IntSqrtLoop(BToInt(rem), 0, Base \div 2)
                   ELSE IF q < Base - 1 THEN q ELSE Base - 1
           d    == BSqrtDigit(r2, rem, est)
       IN  [r   |-> BTrim(<<d>> \o up.r),
            rem |-> BSub(rem, BMulSmall(<<d>> \o r2, d))]

\* floor of the square root: n is first scaled by a power of 4 that fills
\* its leading pair of limbs, which keeps the digit estimates close
BSqrt(n) ==
  LET limbs == Len(n) + (Len(n) % 2)
      sh    == 2 * ((LimbBits * limbs - BBitLen(n)) \div 2)
      x     == BShl(n, sh)
  IN  BShr(BSqrtRem(x \o [i \in 1..(limbs - Len(x)) |-> 0]).r, sh \div 2)

\* np.sqrt: correctly rounded; the square root of a negative number is NaN.
\* The significand is scaled to 119 or 120 bits, which makes the exponent
\* even and gives a root of 60 bits.
FloatSqrt(a) ==
  IF a.cls = "nan" THEN NaN
  ELSE IF a.cls = "zero" THEN Zero
  ELSE IF a.s = 1 THEN NaN
  ELSE IF a.cls = "inf" THEN a
  ELSE LET k == Precision + 13 + (a.e % 2)
           n == BShl(a.m, k)
           x == BSqrtRem(n)
       IN  Round(0, x.r, (a.e - k) \div 2, x.rem # <<>>)

\* the literals of the sources, as the parser rounds them
F1_5 == FloatDivInt(FromInt(15), 10)

F0_6 == FloatDivInt(FromInt(6), 10)

F0_5 == FloatDivInt(FromInt(5), 10)

-----------------------------------------------------------------------------
(* Parameters.  The scripts fix initial_balance = 1000, years = 30 and     *)
(* n_simulations = 100; the functions take them as arguments, so the       *)
(* model draws them from small sets that include the non-positive values   *)
(* the functions accept.                                                   *)

MaxYears == 2

MaxSims == 2

Initials == {0, 7, 1000}

Scripts == {"multiple_simulations", "modified_strategy_simulations"}

age_start == 25

VARIABLES
  script,           \* the script being executed
  initial_balance,  \* module-level parameters
  years,
  n_simulations,
  pc,               \* position of the interpreter in the script
  rng_stream,       \* the coin flips the seed determines, as far as revealed
  rng_pos,          \* number of flips drawn since np.random.seed
  sim,              \* run_*_simulations: loop index, results
  final_balances,
  all_paths,
  year,             \* simulate_*_investment_game: loop index, locals
  balance,
  path,
  ages,
  coin_flips,
  bet_amounts,
  stats,            \* module-level statistics
  categories,       \* module-level outcome categories
  prev              \* the batch of the previous execution, if any

config == <<script, initial_balance, years, n_simulations>>

rng == <<rng_stream, rng_pos>>

runner == <<sim, final_balances, all_paths>>

game == <<year, balance, path, ages, coin_flips, bet_amounts>>

vars == <<config, pc, rng, runner, game, stats, categories, prev>>

NoStats == [computed |-> FALSE]

NoCategories == [computed |-> FALSE]

NoBatch == [script |-> "none", final_balances |-> <<>>, all_paths |-> <<>>]

Init ==
  /\ script \in Scripts
  /\ initial_balance \in Initials
  /\ years \in 0..MaxYears
  /\ n_simulations \in 0..MaxSims
  /\ pc = "main"
  /\ rng_stream = <<>>
  /\ rng_pos = 0
  /\ sim = 0
  /\ final_balances = <<>>
  /\ all_paths = <<>>
  /\ year = 0
  /\ balance = Zero
  /\ path = <<>>
  /\ ages = <<>>
  /\ coin_flips = <<>>
  /\ bet_amounts = <<>>
  /\ stats = NoStats
  /\ categories = NoCategories
  /\ prev = NoBatch

-----------------------------------------------------------------------------
(* The path generators                                                     *)

\* variant: one pass too many
InRange_OffByOne(i, n) == i <= n

\* for i in range(n): is there another pass after i passes?
InRange(i, n) == i < n

\* np.random.binomial(1, 0.5): the next flip of the seeded stream
Binomial(c) ==
  /\ c \in {0, 1}
  /\ rng_pos < Len(rng_stream) => c = rng_stream[rng_pos + 1]
  /\ rng_stream' = IF rng_pos < Len(rng_stream) THEN rng_stream
                   ELSE Append(rng_stream, c)
  /\ rng_pos' = rng_pos + 1

\* variant: a loss is booked as the change of the balance, not as what is
\* left of it
FullStake_Net(b, c) ==
  IF c = 1 THEN FloatMul(b, F1_5) ELSE FloatSub(FloatMul(b, F0_6), b)

\* variant: the two multipliers exchanged
FullStake_Swapped(b, c) ==
  IF c = 1 THEN FloatMul(b, F0_6) ELSE FloatMul(b, F1_5)

\* multiple_simulations.py: the balance after one flip
FullStake(b, c) ==
  IF c = 1 THEN FloatMul(b, F1_5) ELSE FloatMul(b, F0_6)

\* variant: the whole balance is staked
BetAmount_Whole(b) == b

BetAmount(b) == FloatMul(b, F0_5)

\* variant: the reserve is not carried over
UnbetAmount_Dropped(b) == Zero

UnbetAmount(b) == FloatMul(b, F0_5)

\* variant: a lost bet is booked as the change of the stake (-40%), not as
\* what is left of it
BetOutcome_Net(bet, c) ==
  IF c = 1 THEN FloatMul(bet, F1_5)
  ELSE FloatSub(FloatMul(bet, F0_6), bet)

BetOutcome(bet, c) ==
  IF c = 1 THEN FloatMul(bet, F1_5) ELSE FloatMul(bet, F0_6)

\* modified_strategy_simulations.py: the balance after one flip
PartialStake(b, c) == FloatAdd(UnbetAmount(b), BetOutcome(BetAmount(b), c))

RECURSIVE Sum(_)
Sum(xs) == IF xs = <<>> THEN 0 ELSE Head(xs) + Sum(Tail(xs))

Last(xs) == xs[Len(xs)]

\* variant: every flip is counted as a tail
TrialResult_TailsAll(index, as, p, flips) ==
  [simulation    |-> index + 1,
   ages          |-> as,
   balances      |-> p,
   final_balance |-> Last(p),
   heads_count   |-> Sum(flips),
   tails_count   |-> Len(flips)]

\* variant: the trial index is left 0-based
TrialResult_ZeroBased(index, as, p, flips) ==
  [simulation    |-> index,
   ages          |-> as,
   balances      |-> p,
   final_balance |-> Last(p),
   heads_count   |-> Sum(flips),
   tails_count   |-> Len(flips) - Sum(flips)]

\* the dictionary the runners append to all_paths
TrialResult(index, as, p, flips) ==
  [simulation    |-> index + 1,
   ages          |-> as,
   balances      |-> p,
   final_balance |-> Last(p),
   heads_count   |-> Sum(flips),
   tails_count   |-> Len(flips) - Sum(flips)]

NoLocals ==
  /\ year' = 0
  /\ balance' = Zero
  /\ path' = <<>>
  /\ ages' = <<>>
  /\ coin_flips' = <<>>
  /\ bet_amounts' = <<>>

\* variant: a trial goes on from the balance the previous one ended with
EnterGame_Continued ==
  /\ pc = "runner"
  /\ InRange(sim, n_simulations)
  /\ pc' = "game"
  /\ year' = 0
  /\ balance' = IF sim = 0 THEN FromInt(initial_balance)
                 ELSE Last(final_balances)
  /\ path' = <<balance'>>
  /\ ages' = <<age_start>>
  /\ coin_flips' = <<>>
  /\ bet_amounts' = <<>>
  /\ UNCHANGED <<config, rng, runner, stats, categories, prev>>

\* the first lines of either generator: balance = initial, path = [initial]
EnterGame ==
  /\ pc = "runner"
  /\ InRange(sim, n_simulations)
  /\ pc' = "game"
  /\ year' = 0
  /\ balance' = FromInt(initial_balance)
  /\ path' = <<FromInt(initial_balance)>>
  /\ ages' = <<age_start>>
  /\ coin_flips' = <<>>
  /\ bet_amounts' = <<>>
  /\ UNCHANGED <<config, rng, runner, stats, categories, prev>>

\* the generator returns; the runner records the trial and loops
LeaveGame ==
  /\ pc = "game"
  /\ ~InRange(year, years)
  /\ pc' = "runner"
  /\ final_balances' = Append(final_balances, Last(path))
  /\ all_paths' = Append(all_paths, TrialResult(sim, ages, path, coin_flips))
  /\ sim' = sim + 1
  /\ NoLocals
  /\ UNCHANGED <<config, rng, stats, categories, prev>>

\* run_multiple_simulations / run_modified_simulations is called
CallRunner ==
  /\ pc = "main"
  /\ pc' = "runner"
  /\ sim' = 0
  /\ final_balances' = <<>>
  /\ all_paths' = <<>>
  /\ UNCHANGED <<config, rng, game, stats, categories, prev>>

\* simulate_investment_game(initial, years) is called
SimulateCall ==
  /\ script = "multiple_simulations"
  /\ EnterGame

\* one pass of the loop of simulate_investment_game
SimulateStep ==
  /\ script = "multiple_simulations"
  /\ pc = "game"
  /\ InRange(year, years)
  /\ \E coin_flip \in {0, 1} :
       /\ Binomial(coin_flip)
       /\ coin_flips' = Append(coin_flips, coin_flip)
       /\ balance' = FullStake(balance, coin_flip)
       /\ path' = Append(path, balance')
  /\ ages' = Append(ages, age_start + year + 1)
  /\ year' = year + 1
  /\ UNCHANGED <<config, pc, runner, bet_amounts, stats, categories, prev>>

SimulateReturn ==
  /\ script = "multiple_simulations"
  /\ LeaveGame

\* simulate_modified_investment_game(initial, years) is called
ModifiedCall ==
  /\ script = "modified_strategy_simulations"
  /\ EnterGame

\* one pass of the loop of simulate_modified_investment_game
ModifiedStep ==
  /\ script = "modified_strategy_simulations"
  /\ pc = "game"
  /\ InRange(year, years)
  /\ \E coin_flip \in {0, 1} :
       /\ Binomial(coin_flip)
       /\ coin_flips' = Append(coin_flips, coin_flip)
       /\ balance' = PartialStake(balance, coin_flip)
       /\ path' = Append(path, balance')
  /\ bet_amounts' = Append(bet_amounts, BetAmount(balance))
  /\ ages' = Append(ages, age_start + year + 1)
  /\ year' = year + 1
  /\ UNCHANGED <<config, pc, runner, stats, categories, prev>>

ModifiedReturn ==
  /\ script = "modified_strategy_simulations"
  /\ LeaveGame

\* the runner's loop is exhausted: return final_balances, all_paths
ReturnRunner ==
  /\ pc = "runner"
  /\ ~InRange(sim, n_simulations)
  /\ pc' = "returned"
  /\ UNCHANGED <<config, rng, runner, game, stats, categories, prev>>

-----------------------------------------------------------------------------
(* Module-level statistics (numpy on the list of final balances)           *)

\* np.add.reduce over fewer than 8 elements adds them from left to right,
\* starting from 0.0 (batches of the model are shorter than 8)
RECURSIVE np_sum(_)
np_sum(xs) ==
  IF xs = <<>> THEN Zero
  ELSE FloatAdd(np_sum(SubSeq(xs, 1, Len(xs) - 1)), Last(xs))

\* np.mean: sum / count; an empty array gives 0.0 / 0 = nan and a warning
np_mean(xs) == FloatDivInt(np_sum(xs), Len(xs))

RECURSIVE Insert(_, _)
Insert(x, xs) ==
  IF xs = <<>> THEN <<x>>
  ELSE IF FloatLt(x, Head(xs)) THEN <<x>> \o xs
  ELSE <<Head(xs)>> \o Insert(x, Tail(xs))

RECURSIVE Sorted(_)
Sorted(xs) == IF xs = <<>> THEN <<>> ELSE Insert(Head(xs), Sorted(Tail(xs)))

\* np.median: the mean of the middle element(s) of the sorted array
np_median(xs) ==
  LET n  == Len(xs)
      ys == Sorted(xs)
  IN  IF n = 0 THEN NaN
      ELSE IF n % 2 = 1 THEN np_mean(<<ys[n \div 2 + 1]>>)
      ELSE np_mean(<<ys[n \div 2], ys[n \div 2 + 1]>>)

\* np.std: sqrt(mean(abs(x - mean(x)) ** 2)), the population deviation
np_std(xs) ==
  LET mu == np_mean(xs)
      sq == [i \in 1..Len(xs) |->
               FloatMul(FloatSub(xs[i], mu), FloatSub(xs[i], mu))]
  IN  FloatSqrt(np_mean(sq))

\* variant: a balance equal to the threshold is counted as above it
CountAbove_OrEqual(xs, t) ==
  Cardinality({i \in 1..Len(xs) : ~FloatLt(xs[i], FromInt(t))})

\* np.sum(np.array(xs) > t) and np.sum(np.array(xs) < t)
CountAbove(xs, t) ==
  Cardinality({i \in 1..Len(xs) : FloatGt(xs[i], FromInt(t))})

\* variant: a balance equal to the threshold is counted as below it
CountBelow_OrEqual(xs, t) ==
  Cardinality({i \in 1..Len(xs) : ~FloatGt(xs[i], FromInt(t))})

CountBelow(xs, t) ==
  Cardinality({i \in 1..Len(xs) : FloatLt(xs[i], FromInt(t))})

\* np.mean(np.array(xs) > t): the mean of a boolean array
ProbAbove(xs, t) == FloatDivInt(FromInt(CountAbove(xs, t)), Len(xs))

\* lines 79-83 (90-95 in the modified script)
ComputeStats(xs, initial) ==
  [computed           |-> TRUE,
   mean_balance       |-> np_mean(xs),
   median_balance     |-> np_median(xs),
   std_balance        |-> np_std(xs),
   prob_above_initial |-> ProbAbove(xs, initial),
   prob_above_10000   |-> ProbAbove(xs, 10000)]

Statistics ==
  /\ pc = "returned"
  /\ pc' = "stats"
  /\ stats' = ComputeStats(final_balances, initial_balance)
  /\ UNCHANGED <<config, rng, runner, game, categories, prev>>

\* the text box of the plot formats min(final_balances) and
\* max(final_balances); min() of an empty list raises ValueError
StatsText ==
  /\ pc = "stats"
  /\ pc' = IF final_balances = <<>> THEN "ValueError" ELSE "report"
  /\ UNCHANGED <<config, rng, runner, game, stats, categories, prev>>

CategoryNames(scr) ==
  IF scr = "modified_strategy_simulations"
  THEN {"high_value", "profitable", "moderate", "catastrophic"}
  ELSE {"profitable", "moderate", "catastrophic"}

\* lines 183-185 (199-202 in the modified script)
ComputeCategories(scr, xs, initial, n) ==
  LET profitable_sims   == CountAbove(xs, initial)
      high_value_sims   == CountAbove(xs, 10000)
      catastrophic_sims == CountBelow(xs, 100)
      moderate_sims     == n - profitable_sims - catastrophic_sims
  IN  [computed |-> TRUE,
       prob_above_100 |-> ProbAbove(xs, 100),
       counts |-> [c \in CategoryNames(scr) |->
                     CASE c = "profitable"   -> profitable_sims
                       [] c = "high_value"   -> high_value_sims
                       [] c = "catastrophic" -> catastrophic_sims
                       [] c = "moderate"     -> moderate_sims]]

OutcomeCategories ==
  /\ pc = "report"
  /\ pc' = "done"
  /\ categories' = ComputeCategories(script, final_balances, initial_balance,
                                     n_simulations)
  /\ UNCHANGED <<config, rng, runner, game, stats, prev>>

-----------------------------------------------------------------------------
(* A script is executed a second time in the same interpreter (two         *)
(* executions are what the properties about repeated runs compare): its    *)
(* first statement re-seeds the global generator, which rewinds the        *)
(* stream.                                                                 *)

\* variant: the generator is re-seeded from the clock, which starts another
\* stream
Seed_Clock == rng_pos' = 0 /\ rng_stream' = <<>>

\* variant: the generator is not re-seeded
Seed_Forgotten == UNCHANGED rng

\* np.random.seed(42)
Seed == rng_pos' = 0 /\ UNCHANGED rng_stream

Restart(scr) ==
  /\ pc \in {"done", "ValueError"}
  /\ prev = NoBatch
  /\ prev' = [script |-> script, final_balances |-> final_balances,
              all_paths |-> all_paths]
  /\ script' = scr
  /\ Seed
  /\ pc' = "main"
  /\ sim' = 0
  /\ final_balances' = <<>>
  /\ all_paths' = <<>>
  /\ stats' = NoStats
  /\ categories' = NoCategories
  /\ UNCHANGED <<initial_balance, years, n_simulations, game>>

Next ==
  \/ CallRunner
  \/ SimulateCall
  \/ SimulateStep
  \/ SimulateReturn
  \/ ModifiedCall
  \/ ModifiedStep
  \/ ModifiedReturn
  \/ ReturnRunner
  \/ Statistics
  \/ StatsText
  \/ OutcomeCategories
  \/ \E scr \in Scripts : Restart(scr)

Spec == Init /\ [][Next]_vars

-----------------------------------------------------------------------------
(* The statistics over batches of a longer horizon.  The state a runner    *)
(* returns in after StatsYears periods per trial (or after one period) is  *)
(* built directly from the flips of each trial, so that batches with       *)
(* balances below 100 and above 10000 are covered; the module-level code   *)
(* then runs as usual.                                                     *)

StatsYears == 12

MaxBatch == 3

StatsHorizons == {1, StatsYears}

\* 1000 as in the scripts; 100, the threshold of the lowest category; 125,
\* from which one loss of the 50% engine ends at 100 exactly
StatsInitials == {100, 125, 1000}

\* the trajectory a generator builds from given flips
RECURSIVE PathFrom(_, _, _)
PathFrom(scr, b, flips) ==
  IF flips = <<>> THEN <<b>>
  ELSE <<b>> \o PathFrom(scr,
                         IF scr = "multiple_simulations"
                         THEN FullStake(b, Head(flips))
                         ELSE PartialStake(b, Head(flips)),
                         Tail(flips))

simulate(scr, initial, flips) == PathFrom(scr, FromInt(initial), flips)

AgesOf(n) == [i \in 1..(n + 1) |-> age_start + i - 1]

\* all wins, all losses, win and loss in turn, a single loss at the end
OutcomeSamples(h) ==
  { [i \in 1..h |-> 1],
    [i \in 1..h |-> 0],
    [i \in 1..h |-> i % 2],
    [i \in 1..h |-> IF i = h THEN 0 ELSE 1] }

RECURSIVE Flatten(_)
Flatten(xss) == IF xss = <<>> THEN <<>> ELSE Head(xss) \o Flatten(Tail(xss))

InitStats ==
  /\ script \in Scripts
  /\ initial_balance \in StatsInitials
  /\ years \in StatsHorizons
  /\ n_simulations \in 0..MaxBatch
  /\ pc = "returned"
  /\ \E paths \in {[f \in OutcomeSamples(years) |->
                      simulate(script, initial_balance, f)]} :
       \E flips \in [1..n_simulations -> OutcomeSamples(years)] :
         /\ rng_stream = Flatten(flips)
         /\ all_paths =
              [k \in 1..n_simulations |->
                 TrialResult(k - 1, AgesOf(years), paths[flips[k]],
                             flips[k])]
  /\ rng_pos = Len(rng_stream)
  /\ sim = n_simulations
  /\ final_balances =
       [k \in 1..n_simulations |-> all_paths[k].final_balance]
  /\ year = 0
  /\ balance = Zero
  /\ path = <<>>
  /\ ages = <<>>
  /\ coin_flips = <<>>
  /\ bet_amounts = <<>>
  /\ stats = NoStats
  /\ categories = NoCategories
  /\ prev = NoBatch

NextStats ==
  \/ Statistics
  \/ StatsText
  \/ OutcomeCategories

SpecStats == InitStats /\ [][NextStats]_vars

-----------------------------------------------------------------------------
(* The runners called with a float for the initial balance.  The functions *)
(* take any number; here initial_balance is a double from the ends of the  *)
(* range (the smallest positive doubles, the largest double) or an         *)
(* ordinary amount, and the runner and the generator run as above, through *)
(* the return of the runner.                                               *)

MaxUnits == 4

\* u times the smallest positive double (u * 5e-324)
Subnormal(u) == Finite(0, BFromInt(u), MinExponent)

\* sys.float_info.max
MaxDouble == Finite(0, BSub(BShl(<<1>>, Precision), <<1>>), MaxExponent)

FloatInitials ==
  {Subnormal(u) : u \in 1..MaxUnits} \cup {MaxDouble, FromInt(7), FromInt(1000)}

InitFloat ==
  /\ script \in Scripts
  /\ initial_balance \in FloatInitials
  /\ years \in 0..MaxYears
  /\ n_simulations \in 0..MaxSims
  /\ pc = "main"
  /\ rng_stream = <<>>
  /\ rng_pos = 0
  /\ sim = 0
  /\ final_balances = <<>>
  /\ all_paths = <<>>
  /\ year = 0
  /\ balance = Zero
  /\ path = <<>>
  /\ ages = <<>>
  /\ coin_flips = <<>>
  /\ bet_amounts = <<>>
  /\ stats = NoStats
  /\ categories = NoCategories
  /\ prev = NoBatch

\* the first lines of either generator when the argument is a float already
EnterGameFloat ==
  /\ pc = "runner"
  /\ InRange(sim, n_simulations)
  /\ pc' = "game"
  /\ year' = 0
  /\ balance' = initial_balance
  /\ path' = <<initial_balance>>
  /\ ages' = <<age_start>>
  /\ coin_flips' = <<>>
  /\ bet_amounts' = <<>>
  /\ UNCHANGED <<config, rng, runner, stats, categories, prev>>

NextFloat ==
  \/ CallRunner
  \/ EnterGameFloat
  \/ SimulateStep
  \/ SimulateReturn
  \/ ModifiedStep
  \/ ModifiedReturn
  \/ ReturnRunner

SpecFloat == InitFloat /\ [][NextFloat]_vars

-----------------------------------------------------------------------------
(* Exact arithmetic for the properties: the real number a closed form      *)
(* denotes, the double nearest to it, and relative distance.               *)

\* the double nearest to num * 2^twos / 5^fives (num a natural number)
RECURSIVE DivFives(_, _, _)
DivFives(n, fives, sticky) ==
  IF fives = 0 THEN [q |-> n, sticky |-> sticky]
  ELSE LET x == BDivSmall(n, 5)
       IN  DivFives(x.q, fives - 1, sticky \/ x.r # 0)

NearestDouble(num, twos, fives) ==
  LET g == 2 * Precision + 3 * fives
      x == DivFives(BShl(num, g), fives, FALSE)
  IN  Round(0, x.q, twos - g, x.sticky)

\* |x - num * 2^twos / 5^fives| <= (num * 2^twos / 5^fives) * k / 2^51
\* for a double x >= 0
WithinUlps(x, num, twos, fives, k) ==
  IF x.cls = "zero" THEN num = <<>>
  ELSE /\ x.cls = "num" /\ x.s = 0
       /\ LET lo  == IF x.e < twos THEN x.e ELSE twos
              a   == BMul(BShl(x.m, x.e - lo), BPow(5, fives))
              b   == BShl(num, twos - lo)
              d   == IF BCmp(a, b) >= 0 THEN BSub(a, b) ELSE BSub(b, a)
          IN  BCmp(BShl(d, 51), BMulSmall(b, k)) <= 0

\* the flips the stream gave to trial k of a run (draws (k-1)*years+1 ..
\* k*years since the seed)
DrawnFlips(k) == SubSeq(rng_stream, (k - 1) * years + 1, k * years)

\* initial * 1.5^H * 0.6^L = initial * 3^(H+L) * 2^(-H) / 5^L
FullNum(initial, H, L) == BMul(BFromInt(initial), BPow(3, H + L))

\* initial * 1.25^H * 0.8^L = initial * 5^H * 4^L * 4^(-H) / 5^L
PartialNum(initial, H, L) == BMul(BFromInt(initial), BPow(5, H))

Completed == 1..Len(all_paths)

-----------------------------------------------------------------------------
(* Properties                                                              *)

FullScript == script = "multiple_simulations"

ModifiedScript == script = "modified_strategy_simulations"

Heads(k) == Sum(DrawnFlips(k))

Tails(k) == years - Sum(DrawnFlips(k))

\* C1 (as amended): in the full-stake engine the final balance of every
\* trial with H wins and L losses is initial * 1.5^H * 0.6^L up to the
\* rounding of the float multiplications: the relative error is at most
\* years * 2^-51; the same holds of the balance inside a running trial.
C1_FullClosedFormRounded ==
  FullScript =>
    /\ \A k \in Completed :
         WithinUlps(all_paths[k].final_balance,
                    FullNum(initial_balance, Heads(k), Tails(k)),
                    -Heads(k), Tails(k), years)
    /\ pc = "game" =>
         WithinUlps(balance,
                    FullNum(initial_balance, Sum(coin_flips),
                            year - Sum(coin_flips)),
                    -Sum(coin_flips), year - Sum(coin_flips), year)

\* C1 witness: a full-stake trial from 1000 with wins and losses is recorded
C1_Witness ==
  /\ FullScript
  /\ initial_balance = 1000
  /\ \E k \in Completed : Heads(k) >= 1 /\ Tails(k) >= 1

\* C1 as stated: the final balance is exactly initial * 1.5^H * 0.6^L (a
\* double equal to that real number is the double nearest to it), and
\* trials with the same number of wins end with the same balance.
C1_Original ==
  FullScript =>
    /\ \A k \in Completed :
         all_paths[k].final_balance =
           NearestDouble(FullNum(initial_balance, Heads(k), Tails(k)),
                         -Heads(k), Tails(k))
    /\ \A j, k \in Completed :
         Heads(j) = Heads(k) =>
           all_paths[j].final_balance = all_paths[k].final_balance

\* C2 (as amended): in the 50% engine the final balance of every trial with
\* H wins and L losses is initial * 1.25^H * 0.8^L up to the rounding of the
\* float operations: the relative error is at most years * 2^-51; the same
\* holds of the balance inside a running trial.
C2_PartialClosedFormRounded ==
  ModifiedScript =>
    /\ \A k \in Completed :
         WithinUlps(all_paths[k].final_balance,
                    PartialNum(initial_balance, Heads(k), Tails(k)),
                    2 * Tails(k) - 2 * Heads(k), Tails(k), years)
    /\ pc = "game" =>
         WithinUlps(balance,
                    PartialNum(initial_balance, Sum(coin_flips),
                               year - Sum(coin_flips)),
                    2 * (year - Sum(coin_flips)) - 2 * Sum(coin_flips),
                    year - Sum(coin_flips), year)

\* C2 witness: a 50% trial from 1000 with wins and losses is recorded
C2_Witness ==
  /\ ModifiedScript
  /\ initial_balance = 1000
  /\ \E k \in Completed : Heads(k) >= 1 /\ Tails(k) >= 1

\* C2 as stated: the final balance is exactly initial * 1.25^H * 0.8^L, and
\* trials with the same number of wins end with the same balance.
C2_Original ==
  ModifiedScript =>
    /\ \A k \in Completed :
         all_paths[k].final_balance =
           NearestDouble(PartialNum(initial_balance, Heads(k), Tails(k)),
                         2 * Tails(k) - 2 * Heads(k), Tails(k))
    /\ \A j, k \in Completed :
         Heads(j) = Heads(k) =>
           all_paths[j].final_balance = all_paths[k].final_balance

\* the float expressions of one period, written as the specification writes them
FullExpr(b, c) == FloatMul(b, IF c = 1 THEN F1_5 ELSE F0_6)

PartialExpr(b, c) ==
  FloatAdd(FloatDivInt(b, 2),
           FloatMul(FloatDivInt(b, 2), IF c = 1 THEN F1_5 ELSE F0_6))

\* x is 1.25 * b (win) or 0.8 * b (loss) with a relative error <= 2^-51
NearPartialFactor(x, b, c) ==
  IF c = 1 THEN WithinUlps(x, BMulSmall(b.m, 5), b.e - 2, 0, 1)
  ELSE WithinUlps(x, b.m, b.e + 2, 1, 1)

\* x is the double nearest to 1.25 * b (win) or 0.8 * b (loss)
IsPartialFactor(x, b, c) ==
  IF b.cls = "zero" THEN x = Zero
  ELSE IF c = 1 THEN x = NearestDouble(BMulSmall(b.m, 5), b.e - 2, 0)
  ELSE x = NearestDouble(b.m, b.e + 2, 1)

StepsAsWritten(p, flips) ==
  \A i \in 1..(Len(p) - 1) :
    IF FullScript THEN p[i + 1] = FullExpr(p[i], flips[i])
    ELSE /\ p[i + 1] = PartialExpr(p[i], flips[i])
         /\ NearPartialFactor(p[i + 1], p[i], flips[i])

Floats(xs) == [i \in 1..Len(xs) |-> FromInt(xs[i])]

Examples(p, flips) ==
  (initial_balance = 1000 /\ flips = <<1, 0>>) =>
    p = IF FullScript THEN Floats(<<1000, 1500, 900>>)
        ELSE Floats(<<1000, 1250, 1000>>)

C4_Lengths ==
  /\ pc = "game" =>
       /\ Len(path) = year + 1
       /\ Len(coin_flips) = year
       /\ year <= years
       /\ rng_pos = sim * years + year
  /\ pc = "runner" => rng_pos = sim * years
  /\ \A k \in Completed :
       /\ Len(all_paths[k].balances) = years + 1
       /\ Len(all_paths[k].ages) = years + 1
       /\ all_paths[k].balances[1] = FromInt(initial_balance)
       /\ all_paths[k].heads_count + all_paths[k].tails_count = years

\* C4 witness: a trial over the longest horizon has been recorded
C4_Witness ==
  /\ years = MaxYears
  /\ pc = "runner"
  /\ Completed # {}

\* C5: in every trial result heads_count + tails_count = years, heads_count
\* is the number of wins among the flips drawn for that trial, and both
\* counts are non-negative.
C5_Counts ==
  \A k \in Completed :
    /\ all_paths[k].heads_count + all_paths[k].tails_count = years
    /\ all_paths[k].heads_count = Heads(k)
    /\ all_paths[k].heads_count >= 0
    /\ all_paths[k].tails_count >= 0

\* C5 witness: a recorded trial with both wins and losses
C5_Witness ==
  \E k \in Completed :
    all_paths[k].heads_count >= 1 /\ all_paths[k].tails_count >= 1

AfterReturn == {"returned", "stats", "report", "done", "ValueError"}

\* C9: a second execution of the same script with the same parameters,
\* started from the re-seeded stream, reproduces the batch of the first:
\* the same trial results one by one while it runs and, once the runner has
\* returned, the same final_balances and all_paths.
C9_Determinism ==
  (prev # NoBatch /\ prev.script = script) =>
    /\ \A k \in Completed :
         /\ k <= Len(prev.all_paths)
         /\ all_paths[k] = prev.all_paths[k]
         /\ final_balances[k] = prev.final_balances[k]
    /\ pc \in AfterReturn =>
         /\ final_balances = prev.final_balances
         /\ all_paths = prev.all_paths

\* C9 witness: the second execution of a script has returned a batch of
\* two trials that differ
C9_Witness ==
  /\ prev # NoBatch
  /\ prev.script = script
  /\ pc = "returned"
  /\ Len(all_paths) = 2
  /\ all_paths[1].heads_count # all_paths[2].heads_count

\* C10: the batch the runner returns for trial count N holds exactly N
\* results in generation order: the k-th entry has simulation = k, was
\* generated from the k-th block of flips of the stream, and its
\* final_balance is the last element of its balances and the k-th element
\* of final_balances (the trajectories are recomputed from the flips at the
\* moment the runner returns).
C10_BatchOrder ==
  /\ Len(all_paths) = Len(final_balances)
  /\ pc \in AfterReturn => Len(all_paths) = n_simulations
  /\ \A k \in Completed :
       /\ all_paths[k].simulation = k
       /\ all_paths[k].heads_count = Heads(k)
       /\ all_paths[k].final_balance = Last(all_paths[k].balances)
       /\ all_paths[k].final_balance = final_balances[k]
  /\ pc = "returned" =>
       \A k \in Completed :
         all_paths[k].balances =
           simulate(script, initial_balance, DrawnFlips(k))

\* C10 witness: a returned batch of two trials with different balances
C10_Witness ==
  /\ pc = "returned"
  /\ n_simulations = 2
  /\ Len(all_paths) = 2
  /\ all_paths[1].final_balance # all_paths[2].final_balance

InCategory(c, b) ==
  CASE c = "catastrophic" -> FloatLt(b, FromInt(100))
    [] c = "moderate"     -> /\ ~FloatLt(b, FromInt(100))
                             /\ ~FloatGt(b, FromInt(initial_balance))
    [] c = "profitable"   -> FloatGt(b, FromInt(initial_balance))
    [] c = "high_value"   -> FloatGt(b, FromInt(10000))

RECURSIVE SumOver(_, _)
SumOver(f, S) ==
  IF S = {} THEN 0
  ELSE LET c == CHOOSE x \in S : TRUE IN f[c] + SumOver(f, S \ {c})

\* C6: the outcome categories the script reports (catastrophic below 100,
\* moderate from 100 to the initial balance, profitable above the initial
\* balance and, in the modified script, high value above 10000) partition
\* the batch: every trial lies in exactly one of them and the reported
\* counts add up to the trial count.
C6_Partition ==
  categories.computed =>
    /\ SumOver(categories.counts, CategoryNames(script)) = n_simulations
    /\ \A k \in 1..Len(final_balances) :
         Cardinality({c \in CategoryNames(script) :
                        InCategory(c, final_balances[k])}) = 1

StatNames ==
  {"mean_balance", "median_balance", "std_balance", "prob_above_initial",
   "prob_above_10000"}

\* C7: statistics are never produced for an empty batch and no statistic is
\* ever NaN: a trial count of 0 ends in an error before line 79 completes.
C7_EmptyBatchError ==
  stats.computed =>
    /\ final_balances # <<>>
    /\ \A f \in StatNames : stats[f].cls # "nan"

InvalidConfig ==
  initial_balance <= 0 \/ years <= 0 \/ n_simulations <= 0

\* C8: with a non-positive initial balance, horizon or trial count the call
\* is rejected at once: no flip is drawn, no trajectory is started, no
\* trial result is recorded and the runner does not return a batch.
C8_FailFast ==
  InvalidConfig =>
    /\ rng_stream = <<>>
    /\ path = <<>>
    /\ all_paths = <<>>
    /\ pc \notin AfterReturn

NonNegative(x) == x.cls \in {"zero", "num", "inf"} /\ x.s = 0

Positive(x) == x.cls \in {"num", "inf"} /\ x.s = 0

\* every balance of the running trajectory and of the recorded ones
Balances ==
  {path[i] : i \in 1..Len(path)} \cup (IF pc = "game" THEN {balance} ELSE {})
    \cup UNION {{all_paths[k].balances[i] :
                   i \in 1..Len(all_paths[k].balances)} : k \in Completed}

\* the one start from which a balance reaches 0.0: half of the smallest
\* positive double rounds to 0.0, so both halves of the 50% engine vanish
VanishingStart == ModifiedScript /\ initial_balance = Subnormal(1)

\* balance changes in a pass of the generator's loop, which appends the new
\* balance to the trajectory, and otherwise only as the local variable of a
\* call that begins or returns
BalanceFrame ==
  balance' # balance =>
    \/ /\ pc = "game" /\ pc' = "game"
       /\ year' = year + 1
       /\ path' = Append(path, balance')
    \/ pc = "runner" /\ pc' = "game" /\ path' = <<balance'>>
    \/ pc = "game" /\ pc' = "runner"

\* C11 (as amended): from a positive initial balance no balance of any
\* trajectory of either engine is negative, and every balance is strictly
\* positive (possibly infinite after overflow) unless the 50% engine starts
\* from the smallest positive double, 5e-324; the balance changes only by
\* the update of a pass of the generator's loop.
C11_BalancesStayPositive ==
  [][/\ \A x \in Balances' : NonNegative(x) /\ (~VanishingStart => Positive(x))
     /\ BalanceFrame]_vars

\* C11 witness: the 50% engine has run twice from 2 * 5e-324 and lost both
\* times; the balance is still 2 * 5e-324
C11_Witness ==
  /\ ModifiedScript
  /\ initial_balance = Subnormal(2)
  /\ pc = "game"
  /\ coin_flips = <<0, 0>>
  /\ balance = Subnormal(2)

\* C11 as stated: every balance of every trajectory is strictly positive.
C11_Original == \A x \in Balances : Positive(x)

\* the trials of a batch that ended strictly above t
Above(xs, t) == {k \in 1..Len(xs) : FloatLt(FromInt(t), xs[k])}

\* p is a fraction: 0 <= p <= 1
InUnitInterval(p) ==
  /\ p.cls \in {"zero", "num"}
  /\ ~FloatLt(p, Zero)
  /\ ~FloatGt(p, FromInt(1))

\* p is count / n rounded to a double: |p * n - count| is at most n times
\* half a unit of the last place of p  (p = m * 2^e, e below 0)
IsFraction(p, count, n) ==
  /\ InUnitInterval(p)
  /\ IF count = 0 THEN p = Zero
     ELSE LET a == BMulSmall(p.m, 2 * n)
              b == BShl(BFromInt(count), 1 - p.e)
              d == IF BCmp(a, b) >= 0 THEN BSub(a, b) ELSE BSub(b, a)
          IN  p.cls = "num" /\ BCmp(d, BFromInt(n)) <= 0

\* three full-stake trials of one period from 1000: win, loss, win
ExampleBatch ==
  /\ FullScript
  /\ initial_balance = 1000
  /\ years = 1
  /\ n_simulations = 3
  /\ rng_stream = <<1, 0, 1>>

\* C12: for a non-empty batch each probability above a threshold (the
\* initial balance, 10000, 100) is the number of trials that ended strictly
\* above the threshold divided by the trial count, and lies in [0, 1]; the
\* profitable count is the number of trials that ended strictly above the
\* initial balance.  Three full-stake trials of one period from 1000 with
\* win, loss, win end at [1500, 600, 1500]: mean 1200, probability above
\* 1000 is 2/3, profitable count 2.
C12_Probabilities ==
  final_balances # <<>> =>
    /\ stats.computed =>
         /\ IsFraction(stats.prob_above_initial,
                       Cardinality(Above(final_balances, initial_balance)),
                       Len(final_balances))
         /\ IsFraction(stats.prob_above_10000,
                       Cardinality(Above(final_balances, 10000)),
                       Len(final_balances))
         /\ ExampleBatch =>
              /\ final_balances = Floats(<<1500, 600, 1500>>)
              /\ stats.mean_balance = FromInt(1200)
              /\ stats.prob_above_initial = FloatDivInt(FromInt(2), 3)
    /\ categories.computed =>
         /\ IsFraction(categories.prob_above_100,
                       Cardinality(Above(final_balances, 100)),
                       Len(final_balances))
         /\ categories.counts["profitable"] =
              Cardinality(Above(final_balances, initial_balance))
         /\ ExampleBatch => categories.counts["profitable"] = 2

\* C12 witness: the report of the example batch is complete
C12_Witness ==
  /\ ExampleBatch
  /\ pc = "done"
  /\ stats.computed
  /\ categories.computed

\* what a step of the runner or of a generator does to the stream, to the
\* locals of the trial and to the batch
TrialFrame ==
  /\ (pc = "runner" /\ pc' = "game") =>
       /\ rng_pos = sim * years
       /\ balance' = FromInt(initial_balance)
       /\ path' = <<FromInt(initial_balance)>>
       /\ coin_flips' = <<>>
       /\ UNCHANGED <<rng, runner>>
  /\ (pc = "game" /\ pc' = "game") =>
       /\ rng_pos' = rng_pos + 1
       /\ coin_flips' = Append(coin_flips, rng_stream'[rng_pos'])
       /\ UNCHANGED runner
  /\ (pc = "game" /\ pc' = "runner") =>
       /\ rng_pos = (sim + 1) * years
       /\ coin_flips = DrawnFlips(sim + 1)
       /\ UNCHANGED rng
       /\ sim' = sim + 1
       /\ Len(all_paths') = Len(all_paths) + 1
       /\ Len(final_balances') = Len(final_balances) + 1
       /\ \A k \in 1..Len(all_paths) :
            /\ all_paths'[k] = all_paths[k]
            /\ final_balances'[k] = final_balances[k]
       /\ Last(all_paths').balances =
            simulate(script, initial_balance, coin_flips)

\* C13: trials share nothing but the position in the stream.  A trial
\* begins at draw sim * years with a fresh trajectory [initial] and no
\* flips; each pass takes the next draw and leaves the batch alone; the
\* trial is recorded after exactly years draws, the block
\* sim * years + 1 .. (sim + 1) * years of the stream, its trajectory is
\* what the initial balance and these flips alone determine, and the
\* results recorded before stay as they were.
C13_TrialsIndependent == [][TrialFrame]_vars

\* C13 witness: a second trial has been recorded after a first one that
\* drew other flips
C13_Witness ==
  /\ pc = "runner"
  /\ years = MaxYears
  /\ Len(all_paths) = 2
  /\ DrawnFlips(1) # DrawnFlips(2)
  /\ all_paths[1].balances # all_paths[2].balances

\* a script executed after the other one
AfterOther == prev # NoBatch /\ prev.script # script

\* the batch a script returns when run from the seed
FromSeed(scr) ==
  [k \in 1..n_simulations |->
     TrialResult(k - 1, AgesOf(years),
                 simulate(scr, initial_balance, DrawnFlips(k)),
                 DrawnFlips(k))]

\* C14 (as amended): each script seeds the generator itself before it
\* draws, so a script executed after the other one draws the stream from
\* its beginning: trial k takes draws (k-1) * years + 1 .. k * years, the
\* very flips the other script's trial k took, and the batch returned is
\* the one the script returns when it is the only one executed.
C14_SeededPerScript ==
  AfterOther =>
    /\ pc = "runner" => rng_pos = sim * years
    /\ pc = "game" => rng_pos = sim * years + year
    /\ \A k \in Completed :
         /\ k <= Len(prev.all_paths)
         /\ all_paths[k].heads_count = prev.all_paths[k].heads_count
         /\ all_paths[k].tails_count = prev.all_paths[k].tails_count
    /\ pc = "returned" =>
         /\ rng_pos = n_simulations * years
         /\ all_paths = FromSeed(script)

\* C14 witness: the 50% script has returned a batch of two trials after the
\* full-stake script returned one for the same flips
C14_Witness ==
  /\ AfterOther
  /\ ModifiedScript
  /\ pc = "returned"
  /\ years = MaxYears
  /\ Len(all_paths) = 2
  /\ Len(prev.all_paths) = 2
  /\ all_paths[1].heads_count # all_paths[2].heads_count

\* C14 as stated: the script executed second goes on in the stream where
\* the first one stopped, so that its batch depends on the first one's
\* draws.
C14_Original ==
  AfterOther =>
    /\ pc = "runner" => rng_pos = (Len(prev.all_paths) + sim) * years
    /\ pc = "game" => rng_pos = (Len(prev.all_paths) + sim) * years + year

\* path[i + 1] >= path[i] / 2 for every step of a trajectory
KeepsReserve(p) ==
  \A i \in 1..(Len(p) - 1) : ~FloatLt(p[i + 1], FloatDivInt(p[i], 2))

Moderate(xs, initial) ==
  {k \in 1..Len(xs) : /\ ~FloatLt(xs[k], FromInt(100))
                      /\ ~FloatGt(xs[k], FromInt(initial))}

\* C16: for an initial balance of at least 100 the moderate count
\* (trial count - profitable - catastrophic) is not negative and is the
\* number of trials with 100 <= final balance <= initial balance; a final
\* balance of exactly 100 or exactly the initial balance is moderate.
C16_ModerateCount ==
  (categories.computed /\ initial_balance >= 100
     /\ Len(final_balances) = n_simulations) =>
    /\ categories.counts["moderate"] >= 0
    /\ categories.counts["moderate"] =
         Cardinality(Moderate(final_balances, initial_balance))

\* C16 witness: from 125 one trial ended at exactly 100 and another one
\* above 125; the first is moderate
C16_Witness ==
  /\ categories.computed
  /\ initial_balance = 125
  /\ \E k \in 1..Len(final_balances) : final_balances[k] = FromInt(100)
  /\ \E k \in 1..Len(final_balances) : FloatGt(final_balances[k], FromInt(125))
  /\ categories.counts["moderate"] >= 1

====
